---- MODULE Spec2Model ----
(***************************************************************************)
(* A model of src/app.py: the weather-forecast request pipeline.           *)
(*                                                                         *)
(*   fetch_weather            the outbound GET and its classification      *)
(*   generate_hourly_chart    the per-day chart file                       *)
(*   derive_bg_class          the background theme of current conditions   *)
(*   attach_charts_to_forecast, index   the orchestration of a request     *)
(*                                                                         *)
(* Python strings whose characters matter (queries, location names, dates, *)
(* condition texts, file names) are sequences of one-character strings.    *)
(* Python/JSON values are tagged records: the field t is the type.         *)
(***************************************************************************)
EXTENDS Integers, Sequences, FiniteSets, TLC

\* ------------------------------------------------------------------ bounds
MaxQueryLen == 2   \* characters of a submitted location query
MaxDays     == 2   \* forecast days in a provider response
MaxWords    == 2   \* words of a condition text
MaxRequests == 2   \* requests rendering charts at the same time

\* ------------------------------------------------------- Python/JSON values
\* None, and the marker of a key that a dict does not hold.
None   == [t |-> "none"]
Absent == [t |-> "absent"]
Str(s) == [t |-> "str", s |-> s]
Num(n) == [t |-> "num", n |-> n]
List(q) == [t |-> "list", items |-> q]
\* A response body that is not JSON at all: resp.json() raises ValueError.
Invalid == [t |-> "invalid"]

\* Python truthiness (bool(v)), as `not x` and `if x` use it.
Truthy(v) ==
  CASE v.t = "none"   -> FALSE
    [] v.t = "str"    -> v.s # <<>>
    [] v.t = "num"    -> v.n # 0
    [] v.t = "list"   -> v.items # <<>>
    [] v.t = "obj"    -> \E k \in DOMAIN v \ {"t"} : v[k] # Absent
    [] OTHER          -> TRUE

\* ------------------------------------------------------------------ strings
Whitespace == {" ", "\t", "\n", "\r"}
UpperAlpha == <<"A","B","C","D","E","F","G","H","I","J","K","L","M",
                "N","O","P","Q","R","S","T","U","V","W","X","Y","Z">>
LowerAlpha == <<"a","b","c","d","e","f","g","h","i","j","k","l","m",
                "n","o","p","q","r","s","t","u","v","w","x","y","z">>
Digits == <<"0","1","2","3","4","5","6","7","8","9">>
Range(q) == {q[i] : i \in DOMAIN q}

RECURSIVE LStrip(_)
LStrip(s) == IF s # <<>> /\ Head(s) \in Whitespace THEN LStrip(Tail(s)) ELSE s

RECURSIVE RStrip(_)
RStrip(s) ==
  IF s # <<>> /\ s[Len(s)] \in Whitespace THEN RStrip(SubSeq(s, 1, Len(s) - 1)) ELSE s

\* str.strip(), with no mutation.
StripNoop(s) == s

\* str.strip(): leading and trailing whitespace removed.
Strip(s) == RStrip(LStrip(s))

\* str.lower() on one character and on a string.
LowerChar(c) ==
  IF \E i \in DOMAIN UpperAlpha : UpperAlpha[i] = c
    THEN LowerAlpha[CHOOSE i \in DOMAIN UpperAlpha : UpperAlpha[i] = c]
    ELSE c
Lower(s) == [i \in DOMAIN s |-> LowerChar(s[i])]

\* `word in text`: word occurs as a contiguous substring.
Contains(text, word) ==
  \E i \in 0..(Len(text) - Len(word)) :
    \A j \in 1..Len(word) : text[i + j] = word[j]

\* str.isalnum() on one character.
IsAlnum(c) == c \in Range(UpperAlpha) \cup Range(LowerAlpha) \cup Range(Digits)

\* All strings over an alphabet, up to a length.
RECURSIVE StringsUpTo(_, _)
StringsUpTo(alphabet, n) ==
  IF n = 0 THEN {<<>>}
  ELSE LET shorter == StringsUpTo(alphabet, n - 1)
       IN  shorter \cup {Append(s, c) : s \in shorter, c \in alphabet}

\* ------------------------------------------------------------ error messages
ConfigErrorMsg ==
  Str(<<"W","e","a","t","h","e","r"," ","A","P","I"," ","k","e","y"," ","i","s"," ","n","o","t"," ","c","o","n","f","i","g","u","r","e","d","."," ">> \o
      <<"S","e","t"," ","W","E","A","T","H","E","R","_","A","P","I","_","K","E","Y"," ">> \o
      <<"i","n"," ","y","o","u","r"," ",".","e","n","v"," ","f","i","l","e",".">>)
UnknownErrorMsg == [t |-> "lit", text |-> "Unknown error from weather service."]
ParseErrorMsg   == [t |-> "lit", text |-> "Failed to parse response from weather service."]
ValidationErrorMsg == [t |-> "lit", text |-> "Please enter a city name or ZIP code."]
\* f"Network error while contacting weather service: {e}"
NetworkErrorMsg(e) ==
  [t |-> "fnet", text |-> "Network error while contacting weather service: {e}", e |-> e]
\* f"Unexpected error from weather service (status {resp.status_code})."
UnexpectedErrorMsg(status) ==
  [t |-> "fstatus", text |-> "Unexpected error from weather service (status {status}).",
   status |-> status]

\* ------------------------------------------------------------- fetch_weather
\* A JSON object of the provider's error envelope, {"message": m}.
ErrObj(m) == [t |-> "obj", message |-> m]
\* A JSON object at the top level of a response body.
Body(e, l, c, f) == [t |-> "obj", error |-> e, location |-> l, current |-> c, forecast |-> f]
EmptyBody == Body(Absent, Absent, Absent, Absent)

\* resp.json().get("error", {}).get("message", "Unknown error from weather service.")
\* raised: the expression raised (json() on a non-JSON body, .get on a value
\* that is no dict); v: its value otherwise.
ExtractErrMsg(body) ==
  IF body.t # "obj" THEN [raised |-> TRUE, v |-> None]
  ELSE LET e == IF body.error = Absent THEN ErrObj(Absent) ELSE body.error
       IN  IF e.t # "obj" THEN [raised |-> TRUE, v |-> None]
           ELSE [raised |-> FALSE,
                 v |-> IF e.message = Absent THEN UnknownErrorMsg ELSE e.message]

\* fetch_weather with the credential check left out.
FetchNoKeyCheck(key, out) ==
  IF out.kind = "exc" THEN [data |-> None, err |-> NetworkErrorMsg(out.e), net |-> TRUE]
  ELSE IF out.status # 200
    THEN [data |-> None, net |-> TRUE,
          err |-> IF ExtractErrMsg(out.body).raised
                    THEN UnexpectedErrorMsg(out.status) ELSE ExtractErrMsg(out.body).v]
    ELSE IF out.body = Invalid
      THEN [data |-> None, err |-> ParseErrorMsg, net |-> TRUE]
      ELSE [data |-> out.body, err |-> None, net |-> TRUE]

\* fetch_weather whose fallback for an envelope without a message is the
\* synthesized status message.
FetchStatusDefault(key, out) ==
  IF ~Truthy(key) THEN [data |-> None, err |-> ConfigErrorMsg, net |-> FALSE]
  ELSE IF out.kind = "resp" /\ out.status # 200
         /\ ~ExtractErrMsg(out.body).raised
         /\ ExtractErrMsg(out.body).v = UnknownErrorMsg
    THEN [data |-> None, err |-> UnexpectedErrorMsg(out.status), net |-> TRUE]
    ELSE FetchNoKeyCheck(key, out)

\* fetch_weather(query, days) -> (data, error_message); key is API_KEY and out
\* is what requests.get does: it raises RequestException e (kind "exc") or
\* returns a response (kind "resp") with a status code and a body.  net says
\* whether requests.get was called.
fetch_weather(key, out) ==
  IF ~Truthy(key) THEN [data |-> None, err |-> ConfigErrorMsg, net |-> FALSE]
  ELSE IF out.kind = "exc" THEN [data |-> None, err |-> NetworkErrorMsg(out.e), net |-> TRUE]
  ELSE IF out.status # 200
    THEN [data |-> None, net |-> TRUE,
          err |-> IF ExtractErrMsg(out.body).raised
                    THEN UnexpectedErrorMsg(out.status) ELSE ExtractErrMsg(out.body).v]
    ELSE IF out.body = Invalid
      THEN [data |-> None, err |-> ParseErrorMsg, net |-> TRUE]
      ELSE [data |-> out.body, err |-> None, net |-> TRUE]

\* ------------------------------------------------- datetime.strptime, dates
DigitVal(c) == (CHOOSE i \in DOMAIN Digits : Digits[i] = c) - 1
AllDigits(s) == \A i \in DOMAIN s : s[i] \in Range(Digits)

RECURSIVE ParseNat(_)
ParseNat(s) ==
  IF s = <<>> THEN 0 ELSE 10 * ParseNat(SubSeq(s, 1, Len(s) - 1)) + DigitVal(s[Len(s)])

\* str.split(sep) for a one-character separator.
RECURSIVE Split(_, _)
Split(s, sep) ==
  IF \A i \in DOMAIN s : s[i] # sep THEN <<s>>
  ELSE LET k == CHOOSE i \in DOMAIN s : s[i] = sep /\ \A j \in 1..(i - 1) : s[j] # sep
       IN  <<SubSeq(s, 1, k - 1)>> \o Split(SubSeq(s, k + 1, Len(s)), sep)

IsLeap(y) == y % 4 = 0 /\ (y % 100 # 0 \/ y % 400 = 0)
DaysInMonth(y, m) ==
  IF m = 2 THEN (IF IsLeap(y) THEN 29 ELSE 28)
  ELSE IF m \in {4, 6, 9, 11} THEN 30 ELSE 31
MonthName == <<"January", "February", "March", "April", "May", "June", "July",
               "August", "September", "October", "November", "December">>

\* datetime.strptime(raw_date, "%Y-%m-%d"): ok is FALSE where it raises
\* ValueError (the text does not match, or names no calendar day).
Strptime(s) ==
  LET parts == Split(s, "-")
      shaped == /\ Len(parts) = 3
                /\ Len(parts[1]) = 4 /\ AllDigits(parts[1])
                /\ Len(parts[2]) \in {1, 2} /\ AllDigits(parts[2])
                /\ Len(parts[3]) \in {1, 2} /\ AllDigits(parts[3])
  IN  IF ~shaped THEN [ok |-> FALSE]
      ELSE LET y == ParseNat(parts[1])
               m == ParseNat(parts[2])
               d == ParseNat(parts[3])
           IN  IF y >= 1 /\ m \in 1..12 /\ d \in 1..DaysInMonth(y, m)
                 THEN [ok |-> TRUE, year |-> y, month |-> m, day |-> d]
                 ELSE [ok |-> FALSE]

\* day["date_pretty"]: f"{dt.strftime('%B')} {dt.day}, {dt.year}", or raw_date
\* itself when strptime raised ValueError.
PrettyDate(raw) ==
  LET dt == Strptime(raw)
  IN  IF dt.ok THEN [t |-> "fdate", text |-> "{month} {day}, {year}",
                     month |-> MonthName[dt.month], day |-> dt.day, year |-> dt.year]
      ELSE Str(raw)

\* ----------------------------------------------------- generate_hourly_chart
\* One hourly reading and one forecast day of the provider's response.
Reading(temp) == [t |-> "obj", temp_f |-> temp]
Day(date, hour) ==
  [t |-> "obj", date |-> date, hour |-> hour, date_pretty |-> Absent, chart_image |-> Absent]

\* "".join(c for c in location_name if c.isalnum() or c in ("-", "_"))
RECURSIVE KeepSafe(_)
KeepSafe(s) ==
  IF s = <<>> THEN <<>>
  ELSE (IF IsAlnum(Head(s)) \/ Head(s) \in {"-", "_"} THEN <<Head(s)>> ELSE <<>>)
       \o KeepSafe(Tail(s))

\* safe_loc: the filtered name, stripped, or "location" when that is empty.
SafeLoc(name) ==
  IF Strip(KeepSafe(name)) # <<>> THEN Strip(KeepSafe(name)) ELSE <<"l","o","c","a","t","i","o","n">>

\* filename = f"{safe_loc}_{date_str}.png"; date is day.get("date", "unknown").
ChartFilename(name, date) ==
  SafeLoc(name) \o <<"_">> \o (IF date = Absent THEN <<"u","n","k","n","o","w","n">> ELSE date.s) \o <<".","p","n","g">>

\* What the filesystem and matplotlib do in one call: io is "ok", "mkdir"
\* (os.makedirs raises OSError) or "savefig" (fig.savefig raises OSError);
\* plotNone is what plotting a series that holds None does in the installed
\* matplotlib/numpy: "draw" (None is drawn as a gap) or "raise" (TypeError).
ChartEnvs == [io : {"ok", "mkdir", "savefig"}, plotNone : {"draw", "raise"}]

\* generate_hourly_chart(day_data, location_name) -> filename | None.
\* ret: the value returned; raised: the exception that escaped ("" for none);
\* wrote: the files written; plotted: whether the figure was drawn.
generate_hourly_chart(day, location_name, env) ==
  LET hours_data == IF day.hour = Absent THEN List(<<>>) ELSE day.hour
      nothing == [ret |-> None, raised |-> "", wrote |-> {}, plotted |-> FALSE]
  IN  IF ~Truthy(hours_data) THEN nothing
      ELSE
        LET times_full == [k \in DOMAIN hours_data.items |-> <<>>]
            temps == [k \in DOMAIN hours_data.items |->
                        IF hours_data.items[k].temp_f = Absent THEN None
                        ELSE hours_data.items[k].temp_f]
            filename == ChartFilename(location_name.s, day.date)
        IN  IF DOMAIN temps = {} \/ DOMAIN times_full = {} THEN nothing
            ELSE IF env.io = "mkdir"
              THEN [ret |-> None, raised |-> "OSError", wrote |-> {}, plotted |-> FALSE]
            ELSE IF location_name.t # "str"
              THEN [ret |-> None, raised |-> "TypeError", wrote |-> {}, plotted |-> FALSE]
            ELSE IF (\E k \in DOMAIN temps : temps[k] = None) /\ env.plotNone = "raise"
              THEN [ret |-> None, raised |-> "TypeError", wrote |-> {}, plotted |-> TRUE]
            ELSE IF env.io = "savefig"
              THEN [ret |-> None, raised |-> "OSError", wrote |-> {}, plotted |-> TRUE]
            ELSE [ret |-> Str(filename), raised |-> "", wrote |-> {filename},
                  plotted |-> TRUE]

\* ----------------------------------------------------------- derive_bg_class
\* The "current" object of a response and its "condition" object.
Condition(text) == [t |-> "obj", text |-> text]
Current(condition, is_day) == [t |-> "obj", condition |-> condition, is_day |-> is_day]
EmptyCurrent == Current(Absent, Absent)

StormWords  == {<<"t","h","u","n","d","e","r">>, <<"s","t","o","r","m">>}
SnowWords   == {<<"s","n","o","w">>, <<"b","l","i","z","z","a","r","d">>, <<"s","l","e","e","t">>, <<"i","c","e">>}
RainWords   == {<<"r","a","i","n">>, <<"d","r","i","z","z","l","e">>, <<"s","h","o","w","e","r">>}
FogWords    == {<<"f","o","g">>, <<"m","i","s","t">>, <<"h","a","z","e">>, <<"o","v","e","r","c","a","s","t">>}

\* any(word in text for word in words)
AnyIn(words, text) == \E w \in words : Contains(text, w)

\* str(v) for the values a condition text can be.
PyStr(v) ==
  CASE v.t = "str"  -> v.s
    [] v.t = "none" -> <<"N","o","n","e">>
    [] OTHER        -> <<>>

\* The chain with the cloudy test ahead of the fog test.
TagOfCloudyFirst(text, is_day) ==
  IF AnyIn(StormWords, text) THEN "storm"
  ELSE IF AnyIn(SnowWords, text) THEN "snow"
  ELSE IF AnyIn(RainWords, text) THEN "rain"
  ELSE IF Contains(text, <<"c","l","o","u","d">>) \/ Contains(text, <<"o","v","e","r","c","a","s","t">>) THEN "cloudy"
  ELSE IF AnyIn(FogWords, text) THEN "fog"
  ELSE IF is_day = Num(1) THEN "clear-day" ELSE "clear-night"

\* The chain of tests of derive_bg_class on the lower-cased text.
TagOf(text, is_day) ==
  IF AnyIn(StormWords, text) THEN "storm"
  ELSE IF AnyIn(SnowWords, text) THEN "snow"
  ELSE IF AnyIn(RainWords, text) THEN "rain"
  ELSE IF AnyIn(FogWords, text) THEN "fog"
  ELSE IF Contains(text, <<"c","l","o","u","d">>) \/ Contains(text, <<"o","v","e","r","c","a","s","t">>) THEN "cloudy"
  ELSE IF is_day = Num(1) THEN "clear-day" ELSE "clear-night"

\* derive_bg_class(current) -> tag.  raised: the exception that escaped ("" for
\* none): .get on a value that is no dict raises AttributeError.
derive_bg_class(current) ==
  IF ~Truthy(current) THEN [raised |-> "", tag |-> "default"]
  ELSE IF current.t # "obj" THEN [raised |-> "AttributeError", tag |-> ""]
  ELSE
    LET cond == IF current.condition = Absent THEN Condition(Absent) ELSE current.condition
    IN  IF cond.t # "obj" THEN [raised |-> "AttributeError", tag |-> ""]
        ELSE
          LET text == Lower(PyStr(IF cond.text = Absent THEN Str(<<>>) ELSE cond.text))
              is_day == IF current.is_day = Absent THEN Num(1) ELSE current.is_day
          IN  [raised |-> "", tag |-> TagOf(text, is_day)]

\* ------------------------------------------------------------------- inputs
\* What a client can submit, what the environment holds, what the provider
\* can answer: small sets that reach every branch of the code.
RawQueries == StringsUpTo({" ", "a"}, MaxQueryLen)
DaysInputs == {Absent, Str(<<"3">>), Str(<<"x">>)}
ApiKeys    == {None, Str(<<>>), Str(<<"k">>)}

NoMatchText == <<"N","o"," ","m","a","t","c","h","i","n","g"," ","l","o","c","a","t","i","o","n"," ","f","o","u","n","d",".">>
ErrorFields ==
  {None, Str(<<"o","o","p","s">>), ErrObj(Absent), ErrObj(None), ErrObj(Str(<<>>)), ErrObj(Str(NoMatchText))}
EnvelopeBodies == {Body(e, Absent, Absent, Absent) : e \in ErrorFields}
NonObjBodies   == {Invalid, None, List(<<>>), List(<<Num(1)>>)}

Location(name) == [t |-> "obj", name |-> name]
Forecast(fd)   == [t |-> "obj", forecastday |-> fd]
DateInputs == {Absent, Str(<<"2","0","2","5","-","1","2","-","1","2">>), Str(<<"2","0","2","5","-","0","2","-","3","0">>)}
HourInputs ==
  {Absent, List(<<>>), List(<<Reading(Num(50))>>), List(<<Reading(Absent)>>),
   List(<<Reading(Num(50)), Reading(Absent)>>)}
\* Every date with a day that has a chart, every hour list with a valid date.
DayInputs ==
  {Day(d, List(<<Reading(Num(50))>>)) : d \in DateInputs}
    \cup {Day(Str(<<"2","0","2","5","-","1","2","-","1","2">>), h) : h \in HourInputs}
RECURSIVE SeqsUpTo(_, _)
SeqsUpTo(S, n) ==
  IF n = 0 THEN {<<>>}
  ELSE LET shorter == SeqsUpTo(S, n - 1)
       IN  shorter \cup {Append(q, x) : q \in shorter, x \in S}
LocationInputs == {Absent, None, Location(Absent), Location(None), Location(Str(<<"N","e","w"," ","Y","o","r","k">>))}
CurrentInputs ==
  {Absent, None, EmptyCurrent, Str(<<"S","u","n","n","y">>), Current(None, Num(1)),
   Current(Condition(Str(<<"O","v","e","r","c","a","s","t">>)), Num(1)), Current(Condition(Absent), Num(0))}
ForecastInputs ==
  {Absent, None, Forecast(Absent), Forecast(None)}
    \cup {Forecast(List(q)) : q \in SeqsUpTo(DayInputs, MaxDays)}
TypicalLocation == Location(Str(<<"N","e","w"," ","Y","o","r","k">>))
TypicalCurrent  == Current(Condition(Str(<<"O","v","e","r","c","a","s","t">>)), Num(1))
TypicalForecast == Forecast(List(<<Day(Str(<<"2","0","2","5","-","1","2","-","1","2">>), List(<<Reading(Num(50))>>))>>))
ForecastBodies ==
  {Body(Absent, TypicalLocation, TypicalCurrent, f) : f \in ForecastInputs}
    \cup {Body(Absent, l, c, TypicalForecast) : l \in LocationInputs, c \in CurrentInputs}
OkBodies  == NonObjBodies \cup EnvelopeBodies \cup {EmptyBody} \cup ForecastBodies
ErrBodies == NonObjBodies \cup EnvelopeBodies \cup {EmptyBody}
               \cup {Body(Absent, TypicalLocation, TypicalCurrent, TypicalForecast)}
ErrStatuses == {400, 500}
Outcomes ==
  {[kind |-> "exc", e |-> x] : x \in {"ConnectionError", "Timeout"}}
    \cup {[kind |-> "resp", status |-> 200, body |-> b] : b \in OkBodies}
    \cup {[kind |-> "resp", status |-> st, body |-> b] : st \in ErrStatuses, b \in ErrBodies}
\* No response: requests.get was not called, or raised.
NoResp == [kind |-> "none"]

\* -------------------------------------------------------------------- state
VARIABLES
  apiKey,         \* API_KEY, read from the environment when the module loads
  pc,             \* where the request is: Idle, Fetching, Enriching, Charting,
                  \* Classifying, Failed, Done, Crashed (an exception left index)
  method,         \* request.method of the request being served ("" before it)
  blank,          \* whether the submitted location was empty or all whitespace
  query, days, weather_data, error, bg_theme,   \* the locals of index
  map_timestamp,  \* the ordinal of the clock read that produced the timestamp
  resp,           \* what requests.get did for this request
  fetchCalls,     \* calls of fetch_weather
  netCalls,       \* calls of requests.get
  location_name,  \* the local of attach_charts_to_forecast
  i,              \* the index of the day the loop of attach_charts_to_forecast is at
  files,          \* chart files this request wrote under static/charts
  plotted,        \* days whose figure was drawn
  ioFailed,       \* days whose fig.savefig raised OSError
  exc,            \* the exception that left index ("" for none)
  jobs,           \* concurrent chart renderings: request -> name, date, file written
  charts          \* static/charts as those renderings share it: the files, each with
                  \* the request that wrote it last

vars == <<apiKey, pc, method, blank, query, days, weather_data, error, bg_theme,
          map_timestamp, resp, fetchCalls, netCalls, location_name, i, files,
          plotted, ioFailed, exc, jobs, charts>>
reqVars == <<apiKey, pc, method, blank, query, days, weather_data, error, bg_theme,
             map_timestamp, resp, fetchCalls, netCalls, location_name, i, files,
             plotted, ioFailed, exc>>

\* The locals of index as lines 182-189 set them, for a given API_KEY.
FreshRequest(key) ==
  /\ apiKey = key
  /\ pc = "Idle"
  /\ method = ""
  /\ blank = FALSE
  /\ query = <<>>
  /\ days = 5
  /\ weather_data = None
  /\ error = None
  /\ bg_theme = "default"
  /\ map_timestamp = 1
  /\ resp = NoResp
  /\ fetchCalls = 0
  /\ netCalls = 0
  /\ location_name = None
  /\ i = 0
  /\ files = {}
  /\ plotted = {}
  /\ ioFailed = {}
  /\ exc = ""

Init ==
  /\ \E key \in ApiKeys : FreshRequest(key)
  /\ jobs = <<>>
  /\ charts = {}

\* int(days_str), 5 on ValueError.
ParseDays(days_str) ==
  IF Strip(days_str) # <<>> /\ AllDigits(Strip(days_str)) THEN ParseNat(Strip(days_str)) ELSE 5

\* `if weather_data and not error` with the test of weather_data left out.
ShouldEnrichNoData(data, err) == ~Truthy(err)

\* `if weather_data and not error` (line 204).
ShouldEnrich(data, err) == Truthy(data) /\ ~Truthy(err)

\* index, GET: the default view.
Get ==
  /\ pc = "Idle"
  /\ method' = "GET"
  /\ pc' = "Done"
  /\ UNCHANGED <<apiKey, blank, query, days, weather_data, error, bg_theme, map_timestamp,
                 resp, fetchCalls, netCalls, location_name, i, files, plotted, ioFailed,
                 exc, jobs, charts>>

\* index, POST, lines 191-201: the form is read, the query validated.
Post(location, days_in) ==
  /\ pc = "Idle"
  /\ method' = "POST"
  /\ blank' = (\A k \in DOMAIN location : location[k] \in Whitespace)
  /\ query' = Strip(location)
  /\ days' = ParseDays(IF days_in = Absent THEN <<"5">> ELSE days_in.s)
  /\ IF ~Truthy(Str(Strip(location)))
       THEN error' = ValidationErrorMsg /\ pc' = "Done"
       ELSE error' = error /\ pc' = "Fetching"
  /\ UNCHANGED <<apiKey, weather_data, bg_theme, map_timestamp, resp, fetchCalls, netCalls,
                 location_name, i, files, plotted, ioFailed, exc, jobs, charts>>

\* index, lines 203-204: fetch_weather is called and its result tested.
Fetch(out) ==
  /\ pc = "Fetching"
  /\ LET r == fetch_weather(apiKey, out)
     IN  /\ weather_data' = r.data
         /\ error' = r.err
         /\ netCalls' = netCalls + (IF r.net THEN 1 ELSE 0)
         /\ resp' = IF r.net THEN out ELSE NoResp
         /\ pc' = IF ShouldEnrich(r.data, r.err) THEN "Enriching" ELSE "Failed"
  /\ fetchCalls' = fetchCalls + 1
  /\ UNCHANGED <<apiKey, method, blank, query, days, bg_theme, map_timestamp, location_name,
                 i, files, plotted, ioFailed, exc, jobs, charts>>

\* x[key] then [key2]: "ok" with the value, or the KeyError/TypeError raised.
Sub2(x, key, key2) ==
  IF x.t # "obj" THEN [raised |-> "TypeError"]
  ELSE IF key \notin DOMAIN x \/ x[key] = Absent THEN [raised |-> "KeyError"]
  ELSE IF x[key].t # "obj" THEN [raised |-> "TypeError"]
  ELSE IF key2 \notin DOMAIN x[key] \/ x[key][key2] = Absent THEN [raised |-> "KeyError"]
  ELSE [raised |-> "", v |-> x[key][key2]]

\* attach_charts_to_forecast, lines 151-157: the two lookups in the try block,
\* then the start of the loop over forecast_days.
AttachStart ==
  /\ pc = "Enriching"
  /\ LET ln == Sub2(weather_data, "location", "name")
         fd == Sub2(weather_data, "forecast", "forecastday")
     IN  IF ln.raised # "" \/ fd.raised # ""
           THEN pc' = "Classifying" /\ UNCHANGED <<location_name, i, exc>>
         ELSE IF fd.v.t # "list"
           THEN /\ pc' = "Crashed" /\ exc' = "TypeError"
                /\ location_name' = ln.v /\ i' = i
         ELSE /\ location_name' = ln.v
              /\ i' = 1
              /\ pc' = IF fd.v.items = <<>> THEN "Classifying" ELSE "Charting"
              /\ exc' = exc
  /\ UNCHANGED <<apiKey, method, blank, query, days, weather_data, error, bg_theme,
                 map_timestamp, resp, fetchCalls, netCalls, files, plotted, ioFailed,
                 jobs, charts>>

\* attach_charts_to_forecast, lines 157-169: one turn of the loop.
AttachDay(env) ==
  /\ pc = "Charting"
  /\ LET fdays == weather_data.forecast.forecastday.items
         day == fdays[i]
         dated == IF day.date # Absent /\ Truthy(day.date)
                    THEN [day EXCEPT !.date_pretty = PrettyDate(day.date.s)] ELSE day
         r == generate_hourly_chart(dated, location_name, env)
         charted == IF r.raised = "" /\ Truthy(r.ret)
                      THEN [dated EXCEPT !.chart_image = r.ret] ELSE dated
     IN  /\ weather_data' = [weather_data EXCEPT !.forecast.forecastday.items[i] = charted]
         /\ files' = files \cup r.wrote
         /\ plotted' = IF r.plotted THEN plotted \cup {i} ELSE plotted
         /\ ioFailed' = IF r.raised = "OSError" /\ r.plotted THEN ioFailed \cup {i}
                         ELSE ioFailed
         /\ exc' = r.raised
         /\ IF r.raised # "" THEN pc' = "Crashed" /\ i' = i
            ELSE /\ i' = i + 1
                 /\ pc' = IF i = Len(fdays) THEN "Classifying" ELSE "Charting"
  /\ UNCHANGED <<apiKey, method, blank, query, days, error, bg_theme, map_timestamp, resp,
                 fetchCalls, netCalls, location_name, jobs, charts>>

\* index, lines 206-208: the theme and the second timestamp.
Classify ==
  /\ pc = "Classifying"
  /\ IF weather_data.t # "obj"
       THEN pc' = "Crashed" /\ exc' = "AttributeError" /\ UNCHANGED <<bg_theme, map_timestamp>>
       ELSE LET r == derive_bg_class(IF weather_data.current = Absent
                                       THEN EmptyCurrent ELSE weather_data.current)
            IN  IF r.raised # ""
                  THEN /\ pc' = "Crashed" /\ exc' = r.raised
                       /\ UNCHANGED <<bg_theme, map_timestamp>>
                  ELSE /\ bg_theme' = r.tag
                       /\ map_timestamp' = map_timestamp + 1
                       /\ pc' = "Done"
                       /\ exc' = exc
  /\ UNCHANGED <<apiKey, method, blank, query, days, weather_data, error, resp, fetchCalls,
                 netCalls, location_name, i, files, plotted, ioFailed, jobs, charts>>

\* index, line 210, after a fetch that is not enriched: the view is rendered.
Return ==
  /\ pc = "Failed"
  /\ pc' = "Done"
  /\ UNCHANGED <<apiKey, method, blank, query, days, weather_data, error, bg_theme,
                 map_timestamp, resp, fetchCalls, netCalls, location_name, i, files,
                 plotted, ioFailed, exc, jobs, charts>>

Next ==
  \/ Get
  \/ pc = "Idle" /\ \E location \in RawQueries, days_in \in DaysInputs : Post(location, days_in)
  \/ pc = "Fetching" /\ \E out \in Outcomes : Fetch(out)
  \/ AttachStart
  \/ pc = "Charting" /\ \E env \in ChartEnvs : AttachDay(env)
  \/ Classify
  \/ Return

Spec == Init /\ [][Next]_vars

\* ------------------------------------------- the theme of any condition text
\* Condition texts: up to MaxWords words, joined by spaces.
ThemeWords == {<<"T","h","u","n","d","e","r">>, <<"S","n","o","w">>, <<"R","a","i","n">>, <<"O","v","e","r","c","a","s","t">>, <<"C","l","o","u","d","y">>, <<"M","i","s","t">>, <<"S","u","n","n","y">>, <<"N","i","c","e">>}
RECURSIVE JoinWords(_)
JoinWords(q) ==
  IF q = <<>> THEN <<>>
  ELSE IF Len(q) = 1 THEN q[1] ELSE q[1] \o <<" ">> \o JoinWords(Tail(q))
ThemeTexts == {JoinWords(q) : q \in SeqsUpTo(ThemeWords, MaxWords)}
ThemeInputs ==
  {Absent, None}
    \cup {Current(c, d) :
            c \in {Absent, Condition(Absent), Condition(None)}
                    \cup {Condition(Str(x)) : x \in ThemeTexts},
            d \in {Absent, Num(0), Num(1)}}

\* A request that has fetched a body with the given "current" and no
\* "location" (attach_charts_to_forecast returned at its KeyError), about to
\* call derive_bg_class.
InitTheme ==
  \E cur \in ThemeInputs :
    LET body == Body(Absent, Absent, cur, Forecast(Absent))
    IN  /\ apiKey = Str(<<"k">>)
        /\ pc = "Classifying"
        /\ method = "POST"
        /\ blank = FALSE
        /\ query = <<"a">>
        /\ days = 5
        /\ weather_data = body
        /\ error = None
        /\ bg_theme = "default"
        /\ map_timestamp = 1
        /\ resp = [kind |-> "resp", status |-> 200, body |-> body]
        /\ fetchCalls = 1
        /\ netCalls = 1
        /\ location_name = None
        /\ i = 0
        /\ files = {}
        /\ plotted = {}
        /\ ioFailed = {}
        /\ exc = ""
        /\ jobs = <<>>
        /\ charts = {}

NextTheme == Classify

SpecTheme == InitTheme /\ [][NextTheme]_vars

\* ------------------------------------------------ charts of concurrent requests
\* Requests of a multi-request server that are each about to render the chart
\* of one day into the shared static/charts.
Requests == 1..MaxRequests
ChartNames ==
  {<<"N","e","w"," ","Y","o","r","k">>,
   <<"N","e","w","Y","o","r","k">>,
   <<"R","o","m","e">>,
   <<"S","t","."," ","L","o","u","i","s">>,
   <<"S","t"," ","L","o","u","i","s">>}
ChartDates == {Str(<<"2","0","2","5","-","1","2","-","1","2">>), Str(<<"2","0","2","5","-","1","2","-","1","3">>)}

InitChart ==
  /\ FreshRequest(Str(<<"k">>))
  /\ jobs \in [Requests -> [name : ChartNames, date : ChartDates, file : {<<>>}]]
  /\ charts = {}

\* generate_hourly_chart of request r, on a day with one reading, the
\* filesystem working: the file is written, replacing one of the same name.
Render(r) ==
  /\ jobs[r].file = <<>>
  /\ LET res == generate_hourly_chart(Day(jobs[r].date, List(<<Reading(Num(50))>>)),
                                      Str(jobs[r].name), [io |-> "ok", plotNone |-> "draw"])
     IN  /\ jobs' = [jobs EXCEPT ![r].file = res.ret.s]
         /\ charts' = {c \in charts : c.file \notin res.wrote}
                        \cup {[file |-> f, by |-> r] : f \in res.wrote}
  /\ UNCHANGED reqVars

NextChart == \E r \in Requests : Render(r)

SpecChart == InitChart /\ [][NextChart]_vars

\* ------------------------------------------------------------------- claims
\* The forecast days of weather_data, <<>> where it holds no such list.
FDays ==
  IF weather_data.t = "obj" /\ weather_data.forecast # Absent
       /\ weather_data.forecast.t = "obj"
       /\ weather_data.forecast.forecastday # Absent
       /\ weather_data.forecast.forecastday.t = "list"
    THEN weather_data.forecast.forecastday.items ELSE <<>>

\* C1: every POST that completes hands the view exactly one of forecast and
\* error: never both, never neither.
C1_ExactlyOne ==
  (pc = "Done" /\ method = "POST") => (Truthy(weather_data) # Truthy(error))

\* The failure sources of a request: an empty query, a missing credential, a
\* transport failure, a non-200 response, a 200 response whose body is no
\* JSON object.
C2_Failure ==
  \/ blank
  \/ fetchCalls = 1 /\ ~Truthy(apiKey)
  \/ resp.kind = "exc"
  \/ resp.kind = "resp" /\ (resp.status # 200 \/ resp.body.t # "obj")

\* C2: no exception leaves index, and a request that met a failure source ends
\* with an error message string and no forecast.
C2_AllFailuresRecovered ==
  /\ pc # "Crashed" /\ exc = ""
  /\ (pc = "Done" /\ method = "POST" /\ C2_Failure)
       => error.t \in {"str", "lit", "fnet", "fstatus"} /\ Truthy(error)
          /\ ~Truthy(weather_data)

\* C3: a chart write that raises OSError does not fail the request: no
\* exception leaves index, the request ends with the forecast and no error,
\* and the day has no chart_image.
C3_ChartFailureDegrades ==
  ioFailed # {} =>
    /\ pc # "Crashed"
    /\ pc = "Done" => /\ Truthy(weather_data) /\ ~Truthy(error)
                      /\ \A k \in ioFailed : FDays[k].chart_image = Absent

\* C5: a submitted location that is empty or all whitespace ends the request
\* with the validation message, no forecast, and no call of fetch_weather or of
\* the network, whatever the days input and the credential.
C5_BlankQueryRejected ==
  (method = "POST" /\ blank) =>
    /\ pc = "Done"
    /\ error = ValidationErrorMsg
    /\ weather_data = None
    /\ fetchCalls = 0 /\ netCalls = 0 /\ resp = NoResp
    /\ files = {} /\ bg_theme = "default"
C5_Witness ==
  /\ method = "POST" /\ blank /\ pc = "Done" /\ error = ValidationErrorMsg
  /\ Truthy(apiKey) /\ days = 3

\* C6 as claimed: with the credential unset, every submitted request, whatever
\* its query, ends with the ConfigError message, no forecast, no network call.
C6_AnyQueryConfigError ==
  (~Truthy(apiKey) /\ pc = "Done" /\ method = "POST") =>
    error = ConfigErrorMsg /\ weather_data = None /\ netCalls = 0
\* C6 as amended: with the credential unset no network call is ever made, and
\* every submitted request whose query is non-empty after stripping ends with
\* the ConfigError message, which names WEATHER_API_KEY, and no forecast.
C6_NonEmptyQueryConfigError ==
  ~Truthy(apiKey) =>
    /\ netCalls = 0 /\ resp = NoResp
    /\ (pc = "Done" /\ method = "POST" /\ query # <<>>) =>
         /\ error = ConfigErrorMsg
         /\ Contains(error.s, <<"W","E","A","T","H","E","R","_","A","P","I","_","K","E","Y">>)
         /\ weather_data = None
         /\ fetchCalls = 1
C6_Witness ==
  /\ ~Truthy(apiKey) /\ pc = "Done" /\ method = "POST" /\ query # <<>>
  /\ error = ConfigErrorMsg /\ fetchCalls = 1

\* The body of the response carries error.message.
C7_HasMessage ==
  /\ resp.body.t = "obj" /\ resp.body.error # Absent
  /\ resp.body.error.t = "obj" /\ resp.body.error.message # Absent
\* The body is a JSON object whose error field, or whose error object's message
\* field, is missing.
C7_FieldMissing ==
  /\ resp.body.t = "obj"
  /\ \/ resp.body.error = Absent
     \/ resp.body.error.t = "obj" /\ resp.body.error.message = Absent
\* C7 as claimed: after a non-200 response the result is (None, message), the
\* message being error.message when the body carries it and the synthesized
\* message with the status code in every other case.
C7_MessageOrStatus ==
  (resp.kind = "resp" /\ resp.status # 200) =>
    /\ weather_data = None
    /\ error = IF C7_HasMessage THEN resp.body.error.message
               ELSE UnexpectedErrorMsg(resp.status)
\* C7 as amended: the message is error.message when the body carries it; the
\* fixed text "Unknown error from weather service.", without the status code,
\* when the body is a JSON object that lacks the error field or whose error
\* object lacks message; and the synthesized message with the status code only
\* when the extraction raises (the body is no JSON, no object, or its error is
\* no object).
C7_MessageUnknownOrStatus ==
  (resp.kind = "resp" /\ resp.status # 200) =>
    /\ weather_data = None
    /\ error = IF C7_HasMessage THEN resp.body.error.message
               ELSE IF C7_FieldMissing THEN UnknownErrorMsg
               ELSE UnexpectedErrorMsg(resp.status)
C7_Witness ==
  /\ resp.kind = "resp" /\ resp.status = 400 /\ resp.body = EmptyBody
  /\ error = UnknownErrorMsg /\ pc = "Done"

\* A day record with no hourly readings, or with readings that hold no
\* temperature value.
C9_NoSeries(day) ==
  \/ day.hour = Absent
  \/ day.hour.items = <<>>
  \/ \A k \in DOMAIN day.hour.items : day.hour.items[k].temp_f = Absent
\* C9: for a day with no hourly readings or no temperature series nothing is
\* drawn or written, the day gets no chart_image, and no exception leaves the
\* loop at that day.
C9_NoSeriesNoChart ==
  \A k \in DOMAIN FDays :
    C9_NoSeries(FDays[k]) =>
      /\ k \notin plotted
      /\ FDays[k].chart_image = Absent
      /\ ~(pc = "Crashed" /\ i = k)

\* The states of the request of section 4.6; the positions inside
\* attach_charts_to_forecast and before derive_bg_class are all Enriching.
C10_Phase(p) == IF p \in {"Enriching", "Charting", "Classifying"} THEN "Enriching" ELSE p
C10_Edges ==
  {<<"Idle", "Fetching">>, <<"Idle", "Done">>, <<"Fetching", "Enriching">>,
   <<"Fetching", "Failed">>, <<"Enriching", "Enriching">>, <<"Enriching", "Done">>,
   <<"Enriching", "Crashed">>, <<"Failed", "Done">>}
C10_Step == <<C10_Phase(pc), C10_Phase(pc')>> \in C10_Edges
\* The fetch succeeded: requests.get returned status 200 with a JSON body.
C10_FetchSucceeded ==
  fetchCalls = 1 /\ resp.kind = "resp" /\ resp.status = 200 /\ resp.body # Invalid
\* Some enrichment step has happened or is under way.
C10_Enriching ==
  \/ C10_Phase(pc) = "Enriching"
  \/ location_name # None \/ i # 0
  \/ files # {} \/ plotted # {}
  \/ bg_theme # "default" \/ map_timestamp # 1
  \/ \E k \in DOMAIN FDays : FDays[k].date_pretty # Absent \/ FDays[k].chart_image # Absent
C4_DistinctPairsDistinctFiles ==
  \A r1 \in DOMAIN jobs, r2 \in DOMAIN jobs :
    (/\ jobs[r1].file # <<>> /\ jobs[r2].file # <<>>
     /\ <<jobs[r1].name, jobs[r1].date>> # <<jobs[r2].name, jobs[r2].date>>)
      => jobs[r1].file # jobs[r2].file

\* The keyword groups of section 4.3, in their order.
C8_Groups ==
  <<[tag |-> "storm",  words |-> {<<"t","h","u","n","d","e","r">>, <<"s","t","o","r","m">>}],
    [tag |-> "snow",   words |-> {<<"s","n","o","w">>, <<"b","l","i","z","z","a","r","d">>, <<"s","l","e","e","t">>, <<"i","c","e">>}],
    [tag |-> "rain",   words |-> {<<"r","a","i","n">>, <<"d","r","i","z","z","l","e">>, <<"s","h","o","w","e","r">>}],
    [tag |-> "fog",    words |-> {<<"f","o","g">>, <<"m","i","s","t">>, <<"h","a","z","e">>, <<"o","v","e","r","c","a","s","t">>}],
    [tag |-> "cloudy", words |-> {<<"c","l","o","u","d">>}]>>
\* The tag section 4.3 gives to a "current" value.
C8_Expected(cur) ==
  IF cur \in {Absent, None, EmptyCurrent} THEN "default"
  ELSE
    LET text == IF cur.condition # Absent /\ cur.condition.text # Absent
                     /\ cur.condition.text.t = "str"
                  THEN Lower(cur.condition.text.s) ELSE <<>>
        hits == {g \in DOMAIN C8_Groups :
                   \E w \in C8_Groups[g].words : Contains(text, w)}
    IN  IF hits # {} THEN C8_Groups[CHOOSE g \in hits : \A h \in hits : g <= h].tag
        ELSE IF cur.is_day \in {Absent, Num(1)} THEN "clear-day" ELSE "clear-night"
====
